---- MODULE Spec2Model ----
(***************************************************************************)
(* A model of chadtree's action handlers (chadtree/transitions.py): the    *)
(* State each handler receives, the Stage it returns, and the calls it     *)
(* makes to the filesystem and to the editor host on the way.              *)
(*                                                                         *)
(* A path is a sequence of names: <<>> is "/", <<"p", "f">> is "/p/f".     *)
(* The Node tree of a State is a cache of the disk that every handler      *)
(* rebuilds at the directories it touched, so the rows on display are      *)
(* computed from root, index, filter_pattern and the disk.                 *)
(* Handlers that change only show_hidden, enable_vc, vc or qf, and those   *)
(* that return no Stage at all (a_session, c_quit, c_copy_name, c_stat,    *)
(* c_open_system, c_new_search), touch none of the fields modelled here.   *)
(***************************************************************************)
EXTENDS Integers, Sequences, FiniteSets, TLC

VARIABLES
    state,  \* the State the engine holds between two handlers
    disk,   \* the filesystem: its directories, its files, its dead links
    muts,   \* how many filesystem mutations the user has confirmed so far
    last,   \* what the last handler was given, asked, called and returned
    pending, \* the host's events that wait for the dispatcher, oldest first
    running  \* the handlers in flight, each with the State it was given

vars == <<state, disk, muts, last, pending, running>>

\* the dispatcher's own state
sched == <<pending, running>>

----------------------------------------------------------------------------
(* Bounds of the model *)

\* The user selects at most MaxSel paths at a time.
MaxSel == 2
\* A run ends with the MaxMuts-th filesystem mutation the user confirms.
MaxMuts == 1

Live == muts < MaxMuts

----------------------------------------------------------------------------
(* Values *)

\* Optional[str] that is None, and the host's buffer with no name ("")
NoPath == <<"-">>
\* filter_pattern = None, and the input prompt cancelled or left empty
NoFilter == ""

FsRoot == <<>>
Proj == <<"p">>
ProjDir == <<"p", "d">>
ProjFile == <<"p", "f">>
ProjDirFile == <<"p", "d", "f">>
DeadLink == <<"l">>

----------------------------------------------------------------------------
(* os.path *)

dirname(p) == IF p = FsRoot THEN FsRoot ELSE SubSeq(p, 1, Len(p) - 1)

basename(p) == IF p = FsRoot THEN "" ELSE p[Len(p)]

\* join(parent, name) for a name with no separator in it; with the empty
\* name it is parent and a trailing separator, which names parent
join(parent, name) == IF name = "" THEN parent ELSE Append(parent, name)

IsPrefix(a, b) == Len(a) <= Len(b) /\ SubSeq(b, 1, Len(a)) = a

\* os.path.exists follows links: a dead link does not exist
exists(p, fs) == p \in (fs.dirs \cup fs.files) \ fs.links

\* whether there is an entry at p, dead link or not
OnDisk(p, fs) == p \in fs.dirs \cup fs.files

----------------------------------------------------------------------------
(* chadtree/fs.py: the path-set algebra *)

\* every proper ancestor of path, up to and not including the filesystem root
ancestors(path) ==
    IF path = NoPath THEN {}
    ELSE {SubSeq(path, 1, n) : n \in 1..(Len(path) - 1)}

\* strict or equal containment
is_parent(parent, child) == child # NoPath /\ IsPrefix(parent, child)

\* the paths of S that have no proper ancestor in S
unify_ancestors(S) ==
    {p \in S : ~ \E q \in S : q # p /\ IsPrefix(q, p)}

----------------------------------------------------------------------------
(* chadtree/state.py: forward, and the rows of paths_lookup *)

Children(x, fs) ==
    {c \in fs.dirs \cup fs.files : Len(c) = Len(x) + 1 /\ IsPrefix(x, c)}

NameRank(n) ==
    CASE n = "d" -> 1 [] n = "f" -> 2 [] n = "l" -> 3 [] n = "p" -> 4 [] OTHER -> 5

\* directories before files, then by name
SortKey(c, fs) == (IF c \in fs.dirs THEN 0 ELSE 10) + NameRank(basename(c))

RECURSIVE SortRows(_, _)
SortRows(S, fs) ==
    IF S = {} THEN <<>>
    ELSE LET m == CHOOSE x \in S : \A y \in S : SortKey(x, fs) <= SortKey(y, fs)
         IN <<m>> \o SortRows(S \ {m}, fs)

RECURSIVE Flatten(_, _, _)
RECURSIVE FlattenAll(_, _, _)
\* the rows of the subtree at x: x, then the subtrees of its children when x
\* is an expanded directory
Flatten(x, idx, fs) ==
    <<x>> \o (IF x \in idx /\ x \in fs.dirs
              THEN FlattenAll(SortRows(Children(x, fs), fs), idx, fs)
              ELSE <<>>)
FlattenAll(kids, idx, fs) ==
    IF kids = <<>> THEN <<>>
    ELSE Flatten(Head(kids), idx, fs) \o FlattenAll(Tail(kids), idx, fs)

Matches(pattern, name) == pattern = name

\* paths_lookup, as the sequence of its paths in row order
Rows(st, fs) ==
    LET all == Flatten(st.root, st.index, fs)
        loaded == {all[i] : i \in 1..Len(all)}
        Keep(r) ==
            \/ st.filter_pattern = NoFilter
            \/ r = st.root
            \/ \E q \in loaded :
                  IsPrefix(r, q) /\ Matches(st.filter_pattern, basename(q))
    IN SelectSeq(all, Keep)

RowSet(st, fs) == LET r == Rows(st, fs) IN {r[i] : i \in 1..Len(r)}

\* Node.mode, as far as the handlers read it
Mode(node, fs) ==
    IF node = NoPath THEN "none"
    ELSE IF node \in fs.links THEN "orphan_link"
    ELSE IF node \in fs.dirs THEN "folder"
    ELSE "file"

\* forward(state, settings, **upd): the fields of upd replace those of st; a
\* filter_pattern that the update sets empties the selection
forward(st, upd) ==
    LET merged == [k \in DOMAIN st |-> IF k \in DOMAIN upd THEN upd[k] ELSE st[k]]
    IN IF "filter_pattern" \in DOMAIN upd /\ upd.filter_pattern # NoFilter
       THEN [merged EXCEPT !.selection = {}]
       ELSE merged

----------------------------------------------------------------------------
(* The record of one handler's run *)

Event(ev, paths, ops, ok) == [ev |-> ev, paths |-> paths, ops |-> ops, ok |-> ok]

\* op: the handler; pre: the State it was given; on: the disk it found; node,
\* mode: the node _index gave it, or the name of the host's current buffer;
\* targets: the nodes _indices gave it; text: what the user typed;
\* stage: whether it returned a Stage; trace: what it computed, asked,
\* called and told the host, in order; again: whether the run before it was
\* the same handler on the same node, and returned a Stage
Ran(op, pre, node, mode, targets, text, stage, trace) ==
    [op |-> op, pre |-> pre, on |-> disk, node |-> node, mode |-> mode,
     targets |-> targets, text |-> text, stage |-> stage, trace |-> trace,
     again |-> node # NoPath /\ last.op = op /\ last.node = node /\ last.stage]

\* a run with no node, no marks and no text
RanPlain(op, pre, stage, trace) == Ran(op, pre, NoPath, "none", {}, "", stage, trace)

\* a run on the node of the cursor's row
RanNode(op, pre, node, stage, trace) ==
    Ran(op, pre, node, Mode(node, disk), {}, "", stage, trace)

\* _index: the node of the cursor's row, None outside the sidebar's buffer
CursorNodes == RowSet(state, disk) \cup {NoPath}

\* _indices(is_visual = True): the nodes of the rows between the two marks
VisualRanges ==
    LET r == Rows(state, disk)
    IN {{r[k] : k \in i..j} : i \in 1..(Len(r) + 1), j \in 0..Len(r)}

\* _indices: the nodes of the marks' rows, or the node of the cursor's row
Indices == VisualRanges \cup {{n} : n \in RowSet(state, disk)}

\* the names the host's current buffer may have
BufNames == {NoPath, ProjFile, ProjDirFile}

----------------------------------------------------------------------------
\* The directories a session may start in and may have left expanded.
StartDirs == {FsRoot, Proj, ProjDir}

\* state.initial: the root is the directory the editor starts in and is
\* expanded, with the directories the last session left expanded
Init ==
    /\ \E cwd \in StartDirs, session \in SUBSET StartDirs :
          state = [root |-> cwd, index |-> {cwd} \cup session, selection |-> {},
                   filter_pattern |-> NoFilter, follow |-> TRUE,
                   width |-> 40, current |-> NoPath]
    /\ disk = [dirs |-> {FsRoot, Proj, ProjDir},
               files |-> {ProjFile, ProjDirFile, DeadLink},
               links |-> {DeadLink}]
    /\ muts = 0
    /\ pending = <<>>
    /\ running = {}
    /\ last = [op |-> "init", pre |-> state, on |-> disk, node |-> NoPath, mode |-> "none",
               targets |-> {}, text |-> "", stage |-> FALSE, trace |-> <<>>,
               again |-> FALSE]

----------------------------------------------------------------------------
(* _click, lines 350-382 (c_primary, c_secondary, c_tertiary, c_v_split    *)
(* and c_h_split differ only in the window the host shows a file in)       *)

\* a click that only ever takes the path out of index
click_folder_never_expands(st, path) == forward(st, [index |-> st.index \ {path}])

\* a click that collapses as c_collapse does, taking out the paths below too
click_folder_evicting(st, path) ==
    forward(st, [index |-> IF path \in st.index
                           THEN {i \in st.index : ~ IsPrefix(path, i)}
                           ELSE st.index \cup {path}])

\* lines 366-371
click_folder(st, path) ==
    forward(st, [index |-> (st.index \ {path}) \cup ({path} \ st.index)])

\* _open_file, lines 333-345, once the mime warning is answered yes or is
\* not due
open_file(st, path) == forward(st, [current |-> path])

c_click ==
    \E node \in CursorNodes :
        /\ UNCHANGED <<disk, muts>>
        /\ \/ /\ Mode(node, disk) = "none"
              /\ UNCHANGED state
              /\ last' = RanNode("click", state, node, FALSE, <<>>)
           \/ /\ Mode(node, disk) = "orphan_link"
              /\ UNCHANGED state
              /\ last' = RanNode("click", state, node, FALSE,
                                 <<Event("write_error", {}, {}, TRUE)>>)
           \/ /\ Mode(node, disk) = "folder"
              /\ state.filter_pattern # NoFilter
              /\ UNCHANGED state
              /\ last' = RanNode("click", state, node, FALSE,
                                 <<Event("write", {}, {}, TRUE)>>)
           \/ /\ Mode(node, disk) = "folder"
              /\ state.filter_pattern = NoFilter
              /\ state' = click_folder(state, node)
              /\ last' = RanNode("click", state, node, TRUE,
                                 <<Event("forward", {node}, {}, TRUE)>>)
           \/ /\ Mode(node, disk) = "file"
              /\ \/ /\ state' = open_file(state, node)
                    /\ last' = RanNode("click", state, node, TRUE,
                                       <<Event("show_file", {node}, {}, TRUE)>>)
                 \/ \* the mime warning is answered no
                    /\ UNCHANGED state
                    /\ last' = RanNode("click", state, node, FALSE,
                                       <<Event("confirm", {node}, {}, FALSE)>>)

----------------------------------------------------------------------------
(* c_select, lines 837-857 *)

Xor(A, B) == (A \ B) \cup (B \ A)

\* a select that only ever adds to the selection
select_adding(st, paths) == forward(st, [selection |-> st.selection \cup paths])

\* lines 847-848 and 853-854
select(st, paths) == forward(st, [selection |-> Xor(st.selection, paths)])

c_select ==
    \/ \E nodes \in VisualRanges :
        /\ Cardinality(Xor(state.selection, nodes)) <= MaxSel
        /\ state' = select(state, nodes)
        /\ last' = Ran("select_visual", state, NoPath, "none", nodes, "", TRUE, <<>>)
        /\ UNCHANGED <<disk, muts>>
    \/ \E node \in CursorNodes :
        /\ UNCHANGED <<disk, muts>>
        /\ IF node # NoPath
           THEN /\ Cardinality(Xor(state.selection, {node})) <= MaxSel
                /\ state' = select(state, {node})
                /\ last' = RanNode("select", state, node, TRUE, <<>>)
           ELSE /\ UNCHANGED state
                /\ last' = RanNode("select", state, node, FALSE, <<>>)

----------------------------------------------------------------------------
(* c_new_filter, lines 633-649; c_clear_filter; c_clear_selection *)

Patterns == {"f"}

\* a filter command that passes no selection
new_filter_keeping(st, pattern) == forward(st, [filter_pattern |-> pattern])

\* lines 645-648, for the user's answer to the input prompt
new_filter(st, pattern) ==
    forward(st, [selection |-> {}, filter_pattern |-> pattern])

c_new_filter ==
    \E pattern \in Patterns \cup {NoFilter} :
        /\ state' = new_filter(state, pattern)
        /\ last' = Ran("filter", state, NoPath, "none", {}, pattern, TRUE,
                       <<Event("input", {}, {}, pattern # NoFilter)>>)
        /\ UNCHANGED <<disk, muts>>

\* line 833
clear_filter(st) == forward(st, [filter_pattern |-> NoFilter])

c_clear_filter ==
    /\ state' = clear_filter(state)
    /\ last' = RanPlain("clear_filter", state, TRUE, <<>>)
    /\ UNCHANGED <<disk, muts>>

\* line 823
clear_selection(st) == forward(st, [selection |-> {}])

c_clear_selection ==
    /\ state' = clear_selection(state)
    /\ last' = RanPlain("clear_selection", state, TRUE, <<>>)
    /\ UNCHANGED <<disk, muts>>

----------------------------------------------------------------------------
(* chadtree/fs.py: the filesystem collaborators *)

Suffix(x, s) == SubSeq(x, Len(s) + 1, Len(x))

\* what is left of the set X of paths once the subtrees at P are removed
Removed(X, P) == {x \in X : ~ \E p \in P : IsPrefix(p, x)}

\* X with the subtree at o[1] copied to o[2], for every pair o of ops
Copied(X, ops) ==
    X \cup UNION {{o[2] \o Suffix(x, o[1]) : x \in {y \in X : IsPrefix(o[1], y)}} : o \in ops}

\* the disk after remove(P) or trash(P)
AfterRemove(fs, P) ==
    [dirs |-> Removed(fs.dirs, P), files |-> Removed(fs.files, P),
     links |-> Removed(fs.links, P)]

\* the disk after cut(ops) or copy(ops)
AfterTransfer(action, fs, ops) ==
    LET Moved(X) == IF action = "cut"
                    THEN Removed(Copied(X, ops), {o[1] : o \in ops})
                    ELSE Copied(X, ops)
    IN [dirs |-> Moved(fs.dirs), files |-> Moved(fs.files), links |-> Moved(fs.links)]

\* remove and trash take what is on disk, and never "/"
CanRemove(P, fs) == \A p \in P : OnDisk(p, fs) /\ p # FsRoot

\* cut and copy take what is on disk to places that are free, in directories
\* that exist, outside every source, no two sources to one place
CanTransfer(ops, fs) ==
    /\ \A o \in ops :
          /\ OnDisk(o[1], fs) /\ o[1] # FsRoot
          /\ o[2] # NoPath /\ ~ OnDisk(o[2], fs)
          /\ dirname(o[2]) \in fs.dirs
          /\ \A q \in ops : ~ IsPrefix(q[1], o[2])
    /\ \A o, q \in ops : o[2] = q[2] => o = q

----------------------------------------------------------------------------
(* _refresh, lines 520-565, for the name of the host's current buffer and  *)
(* the disk as it is; c_refresh and a_schedule_update, in which a call to   *)
(* the host (lines 528, 534, 548, 563) may raise NvimError                 *)

refresh(st, current, fs) ==
    LET cwd == st.root
        paths == {cwd}
        new_current == IF is_parent(cwd, current) THEN current ELSE NoPath
        index == {i \in st.index : exists(i, fs)} \cup paths
        selection == IF st.filter_pattern # NoFilter THEN {}
                     ELSE {s \in st.selection : exists(s, fs)}
        current_paths == IF st.follow THEN ancestors(current) ELSE {}
        new_index == IF new_current # NoPath THEN index ELSE index \cup current_paths
    IN forward(st, IF new_current # NoPath
                   THEN [index |-> new_index, selection |-> selection,
                         current |-> new_current]
                   ELSE [index |-> new_index, selection |-> selection])

\* c_refresh, lines 581-583: nothing catches what _refresh raises
refresh_raised == <<Event("host", {}, {}, FALSE), Event("raise", {}, {}, TRUE)>>

c_refresh ==
    \/ \E buf \in BufNames :
        /\ state' = refresh(state, buf, disk)
        /\ last' = Ran("refresh", state, buf, "none", {}, "", TRUE,
                       <<Event("forward", {state.root}, {}, TRUE)>>)
        /\ UNCHANGED <<disk, muts>>
    \/ \* a call to the host raises
       /\ UNCHANGED <<state, disk, muts>>
       /\ last' = RanPlain("refresh", state, FALSE, refresh_raised)

\* a background refresh that tells the user of the host's error
schedule_update_telling ==
    <<Event("host", {}, {}, FALSE), Event("write_error", {}, {}, TRUE)>>

\* lines 574-575: except NvimError: return None
schedule_update_caught == <<Event("host", {}, {}, FALSE)>>

\* a_schedule_update, lines 568-575 (BufWritePost, FocusGained)
a_schedule_update ==
    \/ \E buf \in BufNames :
        /\ state' = refresh(state, buf, disk)
        /\ last' = Ran("schedule_update", state, buf, "none", {}, "", TRUE,
                       <<Event("forward", {state.root}, {}, TRUE)>>)
        /\ UNCHANGED <<disk, muts>>
    \/ \* a call to the host raises
       /\ UNCHANGED <<state, disk, muts>>
       /\ last' = RanPlain("schedule_update", state, FALSE, schedule_update_caught)

----------------------------------------------------------------------------
(* _delete, lines 860-904 (c_delete with yeet = remove, c_trash with       *)
(* yeet = trash)                                                           *)

\* lines 867-869: the selection, or without one the nodes _indices gives
delete_targets(st, nodes) == IF st.selection # {} THEN st.selection ELSE nodes

\* a delete that does not unify its targets
delete_unified_not(st, nodes) == delete_targets(st, nodes)

\* line 870
delete_unified(st, nodes) == unify_ancestors(delete_targets(st, nodes))

\* line 891
delete_hint(unified) == {dirname(path) : path \in unified}

\* a delete that leaves the selection
delete_done_keeping(st) == forward(st, [index |-> st.index])

\* lines 892-894
delete_done(st) == forward(st, [selection |-> {}])

\* lines 896-899: the buffers the host is told to kill
delete_kill(st, nodes) == delete_targets(st, nodes)

\* lines 876-899: a delete the user confirms, the collaborator succeeding
delete_trace_ok(yeet, st, nodes) ==
    <<Event("confirm", delete_unified(st, nodes), {}, TRUE),
      Event(yeet, delete_unified(st, nodes), {}, TRUE),
      Event("forward", delete_hint(delete_unified(st, nodes)), {}, TRUE),
      Event("kill", delete_kill(st, nodes), {}, TRUE)>>

\* lines 876-889: a delete the user confirms, the collaborator raising
delete_trace_fail(yeet, st, nodes) ==
    <<Event("confirm", delete_unified(st, nodes), {}, TRUE),
      Event(yeet, delete_unified(st, nodes), {}, FALSE),
      Event("write_error", {}, {}, TRUE),
      Event("forward", {st.root}, {}, TRUE)>>

\* a delete that calls remove whatever the answer
delete_trace_no_yeet(st, nodes) ==
    <<Event("confirm", delete_unified(st, nodes), {}, FALSE),
      Event("remove", delete_unified(st, nodes), {}, TRUE)>>

\* lines 876-884 and 900-901: a delete the user does not confirm
delete_trace_no(st, nodes) ==
    <<Event("confirm", delete_unified(st, nodes), {}, FALSE)>>

RanDelete(op, nodes, stage, trace) ==
    Ran(op, state, NoPath, "none", nodes, "", stage, trace)

delete_(op, yeet, nodes) ==
    LET unified == delete_unified(state, nodes)
    IN IF unified = {}
       THEN /\ UNCHANGED <<state, disk, muts>>
            /\ last' = RanDelete(op, nodes, FALSE, <<>>)
       ELSE \/ \* the user answers no
               /\ UNCHANGED <<state, disk, muts>>
               /\ last' = RanDelete(op, nodes, FALSE, delete_trace_no(state, nodes))
            \/ \* the user answers yes and the collaborator succeeds
               /\ CanRemove(unified, disk)
               /\ disk' = AfterRemove(disk, unified)
               /\ muts' = muts + 1
               /\ state' = delete_done(state)
               /\ last' = RanDelete(op, nodes, TRUE, delete_trace_ok(yeet, state, nodes))
            \/ \* the user answers yes and the collaborator raises, with some
               \* of the paths gone
               \E done \in SUBSET unified \ {unified}, buf \in BufNames :
                   /\ CanRemove(done, disk)
                   /\ disk' = AfterRemove(disk, done)
                   /\ muts' = muts + 1
                   /\ state' = refresh(state, buf, disk')
                   /\ last' = RanDelete(op, nodes, TRUE,
                                        delete_trace_fail(yeet, state, nodes))

\* line 867: _indices is awaited only when the selection is empty
DeleteInputs == IF state.selection # {} THEN {{}} ELSE Indices

c_delete == \E nodes \in DeleteInputs : delete_("delete", "remove", nodes)

c_trash == \E nodes \in DeleteInputs : delete_("trash", "trash", nodes)

----------------------------------------------------------------------------
(* _operation, lines 940-1034 (c_cut with action = cut, c_copy with        *)
(* action = copy)                                                          *)

\* state.is_dir(node)
is_dir(node, fs) == Mode(node, fs) = "folder"

\* a destination that is always beside the node
find_dest_beside(src, node, fs) == join(dirname(node), basename(src))

\* _find_dest, lines 933-937
find_dest(src, node, fs) ==
    join(IF is_dir(node, fs) THEN node ELSE dirname(node), basename(src))

\* pre_op, lines 953-957: the mapping, as a set of <<source, destination>>
operations(st, node, fs) ==
    {<<src, find_dest(src, node, fs)>> : src \in unify_ancestors(st.selection)}

\* an existence check that finds nothing
pre_existing_none(ops, fs) == {}

\* p_pre, lines 959-963
pre_existing(ops, fs) == {o \in ops : exists(o[2], fs)}

\* The names the user may type at ask_rename.
ReplacementNames == {"d", "p"}

\* the answers the user may give to ask_rename for dest: none, or another
\* name in the same directory
Replacements(dest) == {NoPath} \cup {join(dirname(dest), n) : n \in ReplacementNames}

\* the orders in which line 966 may go through the pairs of S
Orderings(S) ==
    {s \in [1..Cardinality(S) -> S] : \A i, j \in 1..Cardinality(S) : s[i] = s[j] => i = j}

\* the answers to the prompts for the pairs of pre, one for each pair, as a
\* set of <<pair, answer>>
RECURSIVE Answers(_)
Answers(pre) ==
    IF pre = {} THEN {{}}
    ELSE LET o == CHOOSE x \in pre : TRUE
         IN {A \cup {<<o, r>>} : A \in Answers(pre \ {o}), r \in Replacements(o[2])}

Answer(answer, o) == (CHOOSE a \in answer : a[1] = o)[2]

\* lines 966-978: the prompts asked, in the order of the loop, up to the
\* first one the user declines
RECURSIVE asked(_, _)
asked(order, answer) ==
    IF order = <<>> THEN <<>>
    ELSE IF Answer(answer, Head(order)) = NoPath
         THEN <<Event("ask_rename", {Head(order)[1]}, {Head(order)}, FALSE)>>
         ELSE <<Event("ask_rename", {Head(order)[1]}, {Head(order)}, TRUE)>>
              \o asked(Tail(order), answer)

\* line 976
replaced(ops, pre, answer) ==
    {IF o \in pre THEN <<o[1], Answer(answer, o)>> ELSE o : o \in ops}

\* lines 1012-1015
operation_hint(ops) == {dirname(o[1]) : o \in ops} \cup {dirname(o[2]) : o \in ops}

\* lines 1016-1023
operation_done(st, ops) ==
    forward(st, [index |-> st.index \cup operation_hint(ops), selection |-> {}])

\* lines 1025-1028: the buffers the host is told to kill
operation_kill(st) == st.selection

\* an operation that calls the collaborator unasked
operation_trace_ok_unasked(action, st, ops) ==
    <<Event(action, {}, ops, TRUE),
      Event("forward", operation_hint(ops), {}, TRUE),
      Event("kill", operation_kill(st), {}, TRUE)>>

\* lines 995-1029: an operation the user confirms, the collaborator succeeding
operation_trace_ok(action, st, ops) ==
    <<Event("confirm", {}, ops, TRUE),
      Event(action, {}, ops, TRUE),
      Event("forward", operation_hint(ops), {}, TRUE),
      Event("kill", operation_kill(st), {}, TRUE)>>

\* lines 995-1010: an operation the user confirms, the collaborator raising
operation_trace_fail(action, st, ops) ==
    <<Event("confirm", {}, ops, TRUE),
      Event(action, {}, ops, FALSE),
      Event("write_error", {}, {}, TRUE),
      Event("forward", {st.root}, {}, TRUE)>>

\* lines 995-1004 and 1030-1031: an operation the user does not confirm
operation_trace_no(ops) == <<Event("confirm", {}, ops, FALSE)>>

\* lines 1032-1034
operation_trace_nothing == <<Event("write_error", {}, {}, TRUE)>>

operation_(action, node) ==
    LET unified == unify_ancestors(state.selection)
        ops0 == operations(state, node, disk)
        pre0 == pre_existing(ops0, disk)
        computed == <<Event("pre_op", {}, ops0, TRUE)>>
    IN IF unified = {} \/ node = NoPath
       THEN /\ UNCHANGED <<state, disk, muts>>
            /\ last' = RanNode(action, state, node, FALSE, operation_trace_nothing)
       ELSE \E order \in Orderings(pre0), answer \in Answers(pre0) :
            LET prompts == computed \o asked(order, answer)
                ops == replaced(ops0, pre0, answer)
            IN IF \E o \in pre0 : Answer(answer, o) = NoPath
               THEN \* a prompt is declined
                    /\ UNCHANGED <<state, disk, muts>>
                    /\ last' = RanNode(action, state, node, FALSE, prompts)
               ELSE IF pre_existing(ops, disk) # {}
               THEN \* a replacement exists too
                    /\ UNCHANGED <<state, disk, muts>>
                    /\ last' = RanNode(action, state, node, FALSE,
                                       prompts \o <<Event("write_error", {}, {}, TRUE)>>)
               ELSE \/ \* the user answers no
                       /\ UNCHANGED <<state, disk, muts>>
                       /\ last' = RanNode(action, state, node, FALSE,
                                          prompts \o operation_trace_no(ops))
                    \/ \* the user answers yes and the collaborator succeeds
                       /\ CanTransfer(ops, disk)
                       /\ disk' = AfterTransfer(action, disk, ops)
                       /\ muts' = muts + 1
                       /\ state' = operation_done(state, ops)
                       /\ last' = RanNode(action, state, node, TRUE,
                                          prompts \o operation_trace_ok(action, state, ops))
                    \/ \* the user answers yes and the collaborator raises,
                       \* with some of the pairs done
                       \E done \in SUBSET ops, buf \in BufNames :
                           /\ done # ops \/ ~ CanTransfer(ops, disk)
                           /\ CanTransfer(done, disk)
                           /\ disk' = AfterTransfer(action, disk, done)
                           /\ muts' = muts + 1
                           /\ state' = refresh(state, buf, disk')
                           /\ last' = RanNode(action, state, node, TRUE,
                                              prompts \o operation_trace_fail(action, state, ops))

c_cut == \E node \in CursorNodes : operation_("cut", node)

c_copy == \E node \in CursorNodes : operation_("copy", node)

----------------------------------------------------------------------------
(* _current, lines 142-153, and the handlers that follow the host's buffer *)

\* a follow that expands whatever the toggle says
current_always(st, current) ==
    forward(st, [index |-> st.index \cup ancestors(current), current |-> current])

\* lines 146-150, for a current inside the root
current_(st, current) ==
    forward(st, [index |-> st.index \cup (IF st.follow THEN ancestors(current) ELSE {}),
                 current |-> current])

\* line 145
inside(st, current) == is_parent(st.root, current)

\* lines 146-149: the rebuild hint
current_hint(st, current) == IF st.follow THEN ancestors(current) ELSE {}

\* a_follow, lines 182-196 (BufEnter)
a_follow ==
    \E current \in BufNames :
        /\ UNCHANGED <<disk, muts>>
        /\ IF current # NoPath /\ inside(state, current)
           THEN /\ state' = current_(state, current)
                /\ last' = Ran("follow", state, current, "none", {}, "", TRUE,
                               <<Event("forward", current_hint(state, current), {}, TRUE)>>)
           ELSE /\ UNCHANGED state
                /\ last' = Ran("follow", state, current, "none", {}, "", FALSE, <<>>)

\* c_open, lines 240-266 (the sidebar toggled), once the arguments parse
c_open ==
    \/ \E current \in BufNames :
        /\ UNCHANGED <<disk, muts>>
        /\ IF inside(state, current)
           THEN /\ state' = current_(state, current)
                /\ last' = Ran("open", state, current, "none", {}, "", TRUE,
                               <<Event("toggle", {}, {}, TRUE),
                                 Event("forward", current_hint(state, current), {}, TRUE)>>)
           ELSE /\ UNCHANGED state
                /\ last' = Ran("open", state, current, "none", {}, "", TRUE,
                               <<Event("toggle", {}, {}, TRUE)>>)
    \/ \* lines 250-252: the arguments do not parse
       /\ UNCHANGED <<state, disk, muts>>
       /\ last' = RanPlain("open", state, FALSE, <<Event("write_error", {}, {}, TRUE)>>)

\* c_jump_to_current, lines 586-602
c_jump_to_current ==
    /\ UNCHANGED <<disk, muts>>
    /\ IF state.current # NoPath /\ inside(state, state.current)
       THEN /\ state' = current_(state, state.current)
            /\ last' = Ran("jump", state, state.current, "none", {}, "", TRUE,
                           <<Event("forward", current_hint(state, state.current), {}, TRUE),
                             Event("focus", {state.current}, {}, TRUE)>>)
       ELSE /\ UNCHANGED state
            /\ last' = Ran("jump", state, state.current, "none", {}, "", FALSE, <<>>)

\* line 619
toggle_follow(st) == forward(st, [follow |-> ~ st.follow])

\* c_toggle_follow, lines 617-621
c_toggle_follow ==
    /\ state' = toggle_follow(state)
    /\ last' = RanPlain("toggle_follow", state, TRUE, <<Event("write", {}, {}, TRUE)>>)
    /\ UNCHANGED <<disk, muts>>

----------------------------------------------------------------------------
(* _change_dir, lines 156-162, and the handlers that change the root *)

\* a change of root that forgets what was expanded
change_dir_afresh(st, new_base) ==
    forward(st, [root |-> new_base, index |-> {new_base}])

\* lines 159-161
change_dir(st, new_base) ==
    forward(st, [root |-> new_base, index |-> st.index \cup {new_base}])

\* getcwd: the directories the host may be in
Cwds == {d \in StartDirs : d \in disk.dirs}

\* c_changedir, lines 165-176 (DirChanged)
c_changedir ==
    \E cwd \in Cwds :
        /\ state' = change_dir(state, cwd)
        /\ last' = Ran("changedir", state, NoPath, "none", {cwd}, "", TRUE,
                       <<Event("forward", {cwd}, {}, TRUE)>>)
        /\ UNCHANGED <<disk, muts>>

\* lines 455 and 487: the node's path when it is a folder, its parent otherwise
folder_of(node, fs) == IF Mode(node, fs) = "folder" THEN node ELSE dirname(node)

\* c_change_focus, lines 445-460
c_change_focus ==
    \E node \in CursorNodes :
        /\ UNCHANGED <<disk, muts>>
        /\ IF node # NoPath
           THEN /\ state' = change_dir(state, folder_of(node, disk))
                /\ last' = Ran("change_focus", state, node, Mode(node, disk),
                               {folder_of(node, disk)}, "", TRUE,
                               <<Event("forward", {folder_of(node, disk)}, {}, TRUE)>>)
           ELSE /\ UNCHANGED state
                /\ last' = RanNode("change_focus", state, node, FALSE, <<>>)

\* c_change_focus_up, lines 463-476
c_change_focus_up ==
    LET c_root == state.root
        parent == dirname(c_root)
    IN /\ UNCHANGED <<disk, muts>>
       /\ IF parent # c_root
          THEN /\ state' = change_dir(state, parent)
               /\ last' = Ran("change_focus_up", state, NoPath, "none", {parent}, "", TRUE,
                              <<Event("forward", {parent}, {}, TRUE)>>)
          ELSE /\ UNCHANGED state
               /\ last' = RanPlain("change_focus_up", state, FALSE, <<>>)

----------------------------------------------------------------------------
(* c_collapse, lines 479-510 *)

\* a collapse that leaves the folder's expanded descendants in index
collapse_shallow(st, path) ==
    IF path # st.root THEN forward(st, [index |-> st.index \ {path}]) ELSE st

\* lines 488-495: None for the root
collapse(st, path) ==
    IF path # st.root
    THEN forward(st, [index |-> st.index \ {i \in st.index : i = path \/ is_parent(path, i)}])
    ELSE st

c_collapse ==
    \E node \in CursorNodes :
        /\ UNCHANGED <<disk, muts>>
        /\ IF node # NoPath
           THEN /\ state' = collapse(state, folder_of(node, disk))
                /\ last' = Ran("collapse", state, node, Mode(node, disk),
                               {folder_of(node, disk)}, "",
                               folder_of(node, disk) # state.root,
                               IF folder_of(node, disk) # state.root
                               THEN <<Event("forward",
                                            {i \in state.index :
                                                is_parent(folder_of(node, disk), i)},
                                            {}, TRUE)>>
                               ELSE <<>>)
           ELSE /\ UNCHANGED state
                /\ last' = RanNode("collapse", state, node, FALSE, <<>>)

----------------------------------------------------------------------------
(* _resize, lines 286-296 (c_bigger with direction = add, c_smaller with   *)
(* direction = sub)                                                        *)

\* line 289: the step of a resize
ResizeStep == 10
\* line 289: the least width
MinWidth == 1
\* The sidebar is made no wider than MaxWidth.
MaxWidth == 60

Max(a, b) == IF a >= b THEN a ELSE b

\* a resize with no least width
resize_unclamped(st, delta) == forward(st, [width |-> st.width + delta])

\* lines 289-290, for direction(state.width, 10) = state.width + delta
resize(st, delta) == forward(st, [width |-> Max(st.width + delta, MinWidth)])

c_bigger ==
    /\ state.width + ResizeStep <= MaxWidth
    /\ state' = resize(state, ResizeStep)
    /\ last' = RanPlain("bigger", state, TRUE, <<Event("resize", {}, {}, TRUE)>>)
    /\ UNCHANGED <<disk, muts>>

c_smaller ==
    /\ state' = resize(state, 0 - ResizeStep)
    /\ last' = RanPlain("smaller", state, TRUE, <<Event("resize", {}, {}, TRUE)>>)
    /\ UNCHANGED <<disk, muts>>

----------------------------------------------------------------------------
(* c_new, lines 726-767 *)

\* The names the user may type at the prompt of c_new: none, or a name.
NewNames == {"", "f", "n"}

\* a new-file that clears the selection when the name is taken
new_taken_clearing(st) == forward(st, [selection |-> {}])

\* lines 743-745: Stage(state) when the path exists
new_taken(st) == st

\* lines 753-757
new_done(st, path) == forward(st, [index |-> st.index \cup ancestors(path)])

\* fs.new: the disk with the file path on it
AfterNew(fs, path) == [fs EXCEPT !.files = @ \cup {path}]

\* fs.new makes what is not there, in a directory that is
CanNew(path, fs) == ~ OnDisk(path, fs) /\ dirname(path) \in fs.dirs

c_new ==
    \E node \in CursorNodes, child \in NewNames :
        LET at == IF node # NoPath THEN node ELSE state.root
            parent == IF is_dir(at, disk) THEN at ELSE dirname(at)
            path == join(parent, child)
            asked_ == <<Event("input", {}, {}, child # "")>>
        IN IF child = ""
           THEN /\ UNCHANGED <<state, disk, muts>>
                /\ last' = Ran("new", state, node, Mode(node, disk), {}, child, FALSE, asked_)
           ELSE IF exists(path, disk)
           THEN /\ state' = new_taken(state)
                /\ UNCHANGED <<disk, muts>>
                /\ last' = Ran("new", state, node, Mode(node, disk), {path}, child, TRUE,
                               asked_ \o <<Event("write_error", {}, {}, TRUE)>>)
           ELSE \/ \* new succeeds and the file is shown
                   /\ CanNew(path, disk)
                   /\ disk' = AfterNew(disk, path)
                   /\ muts' = muts + 1
                   /\ state' = open_file(new_done(state, path), path)
                   /\ last' = Ran("new", state, node, Mode(node, disk), {path}, child, TRUE,
                                  asked_ \o <<Event("new", {path}, {}, TRUE),
                                              Event("forward", ancestors(path), {}, TRUE),
                                              Event("show_file", {path}, {}, TRUE)>>)
                \/ \* new succeeds and the mime warning is answered no
                   /\ CanNew(path, disk)
                   /\ disk' = AfterNew(disk, path)
                   /\ muts' = muts + 1
                   /\ UNCHANGED state
                   /\ last' = Ran("new", state, node, Mode(node, disk), {path}, child, FALSE,
                                  asked_ \o <<Event("new", {path}, {}, TRUE),
                                              Event("forward", ancestors(path), {}, TRUE),
                                              Event("confirm", {path}, {}, FALSE)>>)
                \/ \* new raises
                   \E buf \in BufNames :
                       /\ UNCHANGED disk
                       /\ muts' = muts + 1
                       /\ state' = refresh(state, buf, disk)
                       /\ last' = Ran("new", state, node, Mode(node, disk), {path}, child, TRUE,
                                      asked_ \o <<Event("new", {path}, {}, FALSE),
                                                  Event("write_error", {}, {}, TRUE),
                                                  Event("forward", {state.root}, {}, TRUE)>>)

----------------------------------------------------------------------------
(* c_rename, lines 770-814 *)

\* The paths, relative to the root, the user may type at the prompt of
\* c_rename: none, or a path.
RenameInputs == {<<>>, <<"f">>, <<"n">>, <<"d", "n">>}

\* lines 790-792: Stage(state) when the new name exists
rename_taken(st) == st

\* line 800
rename_hint(st, new_name) ==
    {st.root, dirname(new_name)} \cup ancestors(dirname(new_name))

\* lines 801-804
rename_done(st, new_name) ==
    forward(st, [index |-> st.index \cup rename_hint(st, new_name)])

c_rename ==
    \E node \in CursorNodes, child \in RenameInputs :
        LET prev_name == node
            parent == state.root
            new_name == parent \o child
            asked_ == <<Event("input", {}, {}, child # <<>>)>>
            Run(stage, trace) ==
                Ran("rename", state, node, Mode(node, disk), {new_name}, "", stage, trace)
        IN IF node = NoPath
           THEN /\ UNCHANGED <<state, disk, muts>>
                /\ last' = RanNode("rename", state, node, FALSE, <<>>)
           ELSE IF child = <<>>
           THEN /\ UNCHANGED <<state, disk, muts>>
                /\ last' = RanNode("rename", state, node, FALSE, asked_)
           ELSE IF exists(new_name, disk)
           THEN /\ state' = rename_taken(state)
                /\ UNCHANGED <<disk, muts>>
                /\ last' = Run(TRUE, asked_ \o <<Event("write_error", {}, {}, TRUE)>>)
           ELSE \/ \* rename succeeds
                   /\ CanTransfer({<<prev_name, new_name>>}, disk)
                   /\ disk' = AfterTransfer("cut", disk, {<<prev_name, new_name>>})
                   /\ muts' = muts + 1
                   /\ state' = rename_done(state, new_name)
                   /\ last' = Run(TRUE, asked_ \o
                          <<Event("rename", {}, {<<prev_name, new_name>>}, TRUE),
                            Event("forward", rename_hint(state, new_name), {}, TRUE),
                            Event("kill", {prev_name}, {}, TRUE)>>)
                \/ \* rename raises
                   \E buf \in BufNames :
                       /\ UNCHANGED disk
                       /\ muts' = muts + 1
                       /\ state' = refresh(state, buf, disk)
                       /\ last' = Run(TRUE, asked_ \o
                              <<Event("rename", {}, {<<prev_name, new_name>>}, FALSE),
                                Event("write_error", {}, {}, TRUE),
                                Event("forward", {state.root}, {}, TRUE)>>)

----------------------------------------------------------------------------
(* The filesystem outside the editor *)

\* The entries another program may remove while the editor runs.
Perishable == {ProjDir, ProjFile}

\* another program removes an entry; the editor is told nothing
fs_event ==
    \E path \in Perishable :
        /\ OnDisk(path, disk)
        /\ disk' = AfterRemove(disk, {path})
        /\ UNCHANGED <<state, muts, last>>

----------------------------------------------------------------------------
(* The dispatcher: one queue of the host's events and one worker, which     *)
(* gives a handler the State, awaits its Stage and only then takes the      *)
(* next event                                                               *)

\* The host has at most MaxPending events waiting.
MaxPending == 2

\* the events the host sends: FocusGained and BufWritePost
\* (a_schedule_update), BufEnter (a_follow), and the user's key for c_delete
Events == {"refresh", "follow", "delete"}

\* the host's event joins the queue
host_event ==
    \E op \in Events :
        /\ Len(pending) < MaxPending
        /\ pending' = Append(pending, op)
        /\ UNCHANGED <<state, disk, muts, last, running>>

\* a worker that takes the next event whatever is in flight
idle_whatever(run) == TRUE

\* the worker takes the next event when no handler is in flight
idle(run) == run = {}

\* the worker gives the handler of the oldest event the State
dispatch ==
    /\ pending # <<>>
    /\ idle(running)
    /\ running' = running \cup {[op |-> Head(pending), given |-> state]}
    /\ pending' = Tail(pending)
    /\ UNCHANGED <<state, disk, muts, last>>

\* the handler r returns the Stage of st, or None when st is r.given, and
\* the worker makes it the State
returned(r, st, stage) ==
    /\ r \in running
    /\ running' = running \ {r}
    /\ state' = IF stage THEN st ELSE state
    /\ last' = Ran(r.op, r.given, NoPath, "none", {}, "", stage, <<>>)
    /\ UNCHANGED pending

\* a_schedule_update, lines 568-575, in flight
refresh_returns ==
    \E r \in running, buf \in BufNames :
        /\ r.op = "refresh"
        /\ returned(r, refresh(r.given, buf, disk), TRUE)
        /\ UNCHANGED <<disk, muts>>

\* a_follow, lines 182-196, in flight
follow_returns ==
    \E r \in running, current \in BufNames :
        /\ r.op = "follow"
        /\ returned(r, current_(r.given, current),
                    current # NoPath /\ inside(r.given, current))
        /\ UNCHANGED <<disk, muts>>

\* c_delete, lines 907-917, in flight: the confirmation is answered
delete_returns ==
    \E r \in running :
        /\ r.op = "delete"
        /\ \E node \in RowSet(r.given, disk) :
              LET unified == delete_unified(r.given, {node})
              IN \/ \* the user answers no
                    /\ returned(r, r.given, FALSE)
                    /\ UNCHANGED <<disk, muts>>
                 \/ \* the user answers yes and remove succeeds
                    /\ CanRemove(unified, disk)
                    /\ disk' = AfterRemove(disk, unified)
                    /\ muts' = muts + 1
                    /\ returned(r, delete_done(r.given), TRUE)

----------------------------------------------------------------------------
(* Specifications *)

\* the handlers that act on index, selection and filter_pattern alone
NextTree ==
    \/ Live /\ c_click /\ UNCHANGED sched
    \/ Live /\ c_select /\ UNCHANGED sched
    \/ Live /\ c_new_filter /\ UNCHANGED sched
    \/ Live /\ c_clear_filter /\ UNCHANGED sched
    \/ Live /\ c_clear_selection /\ UNCHANGED sched

SpecTree == Init /\ [][NextTree]_vars

\* the handlers that remove, move and copy what is selected
NextBulk ==
    \/ Live /\ c_select /\ UNCHANGED sched
    \/ Live /\ c_delete /\ UNCHANGED sched
    \/ Live /\ c_trash /\ UNCHANGED sched
    \/ Live /\ c_cut /\ UNCHANGED sched
    \/ Live /\ c_copy /\ UNCHANGED sched

SpecBulk == Init /\ [][NextBulk]_vars

\* the handlers that follow the host's buffer and change the root
NextNav ==
    \/ Live /\ c_click /\ UNCHANGED sched
    \/ Live /\ a_follow /\ UNCHANGED sched
    \/ Live /\ c_open /\ UNCHANGED sched
    \/ Live /\ c_jump_to_current /\ UNCHANGED sched
    \/ Live /\ c_toggle_follow /\ UNCHANGED sched
    \/ Live /\ c_changedir /\ UNCHANGED sched
    \/ Live /\ c_change_focus /\ UNCHANGED sched
    \/ Live /\ c_change_focus_up /\ UNCHANGED sched

SpecNav == Init /\ [][NextNav]_vars

\* Refresh, on a disk that other programs change
NextRefresh ==
    \/ Live /\ c_select /\ UNCHANGED sched
    \/ Live /\ c_new_filter /\ UNCHANGED sched
    \/ Live /\ c_toggle_follow /\ UNCHANGED sched
    \/ Live /\ c_refresh /\ UNCHANGED sched
    \/ Live /\ fs_event /\ UNCHANGED sched

SpecRefresh == Init /\ [][NextRefresh]_vars

\* folders opened by clicks and shut by collapse, among selections
NextFold ==
    \/ Live /\ c_click /\ UNCHANGED sched
    \/ Live /\ c_select /\ UNCHANGED sched
    \/ Live /\ c_collapse /\ UNCHANGED sched

SpecFold == Init /\ [][NextFold]_vars

\* the two refreshes, the background one and the user's
NextUpdate ==
    \/ Live /\ c_select /\ UNCHANGED sched
    \/ Live /\ a_schedule_update /\ UNCHANGED sched
    \/ Live /\ c_refresh /\ UNCHANGED sched
    \/ Live /\ fs_event /\ UNCHANGED sched

SpecUpdate == Init /\ [][NextUpdate]_vars

\* the handlers that resize the sidebar, among selections
NextView ==
    \/ Live /\ c_select /\ UNCHANGED sched
    \/ Live /\ c_bigger /\ UNCHANGED sched
    \/ Live /\ c_smaller /\ UNCHANGED sched

SpecView == Init /\ [][NextView]_vars

\* the handlers that make and rename single entries, and collapse
NextEdit ==
    \/ Live /\ c_select /\ UNCHANGED sched
    \/ Live /\ c_new_filter /\ UNCHANGED sched
    \/ Live /\ c_collapse /\ UNCHANGED sched
    \/ Live /\ c_new /\ UNCHANGED sched
    \/ Live /\ c_rename /\ UNCHANGED sched

SpecEdit == Init /\ [][NextEdit]_vars

\* the dispatcher, with refreshes, follows and deletes
NextDispatch ==
    \/ Live /\ host_event
    \/ Live /\ dispatch
    \/ Live /\ refresh_returns
    \/ Live /\ follow_returns
    \/ Live /\ delete_returns

SpecDispatch == Init /\ [][NextDispatch]_vars

----------------------------------------------------------------------------
\* every handler modelled
Next ==
    \/ Live /\ c_click /\ UNCHANGED sched
    \/ Live /\ c_select /\ UNCHANGED sched
    \/ Live /\ c_new_filter /\ UNCHANGED sched
    \/ Live /\ c_clear_filter /\ UNCHANGED sched
    \/ Live /\ c_clear_selection /\ UNCHANGED sched
    \/ Live /\ c_refresh /\ UNCHANGED sched
    \/ Live /\ c_delete /\ UNCHANGED sched
    \/ Live /\ c_trash /\ UNCHANGED sched
    \/ Live /\ c_cut /\ UNCHANGED sched
    \/ Live /\ c_copy /\ UNCHANGED sched

Spec == Init /\ [][Next]_vars

----------------------------------------------------------------------------
(* What the properties read of the last run *)

\* the filesystem mutation collaborators
Calls == {"remove", "trash", "cut", "copy"}

\* the places of the events of the last run that are named in evs
Places(evs) == {i \in 1..Len(last.trace) : last.trace[i].ev \in evs}

\* the last run was a click on a folder row with no filter active
FolderClick ==
    /\ last.op = "click"
    /\ last.mode = "folder"
    /\ last.pre.filter_pattern = NoFilter

----------------------------------------------------------------------------
(* Click on a folder *)

\* C1: a click on a folder that is not an orphan link, with no filter active
\* and the folder's path not in index, returns a State whose index is the
\* old index and that path, and whose selection is the old one.
ClickExpands ==
    (FolderClick /\ last.node \notin last.pre.index)
        => /\ last.stage
           /\ state.index = last.pre.index \cup {last.node}
           /\ state.selection = last.pre.selection

\* root /p with index {/p} and /p/f selected, click on the folder /p/d
ClickExpandsReached ==
    /\ FolderClick
    /\ last.pre.root = Proj
    /\ last.pre.index = {Proj}
    /\ last.pre.selection = {ProjFile}
    /\ last.node = ProjDir
    /\ state.index = {Proj, ProjDir}

\* C2: a click on a folder whose path is in index returns an index with
\* neither that path nor any path of the old index below it.
ClickCollapseEvictsDescendants ==
    (FolderClick /\ last.node \in last.pre.index)
        => \A i \in last.pre.index : IsPrefix(last.node, i) => i \notin state.index

\* root / with index {/, /p, /p/d}, click on /p: /p/d stays in index
ClickCollapseKeepsDescendant ==
    /\ FolderClick
    /\ last.pre.root = FsRoot
    /\ last.pre.index = {FsRoot, Proj, ProjDir}
    /\ last.node = Proj
    /\ state.index = {FsRoot, ProjDir}

\* C3: with no filter active and a folder's path not in index, two clicks on
\* that folder with no handler in between leave index as it was before the
\* first.
ClickTwiceRestores ==
    [][(/\ FolderClick
        /\ last.stage
        /\ last.node \notin last.pre.index
        /\ last'.op = "click"
        /\ last'.node = last.node
        /\ last'.pre = state)
           => state'.index = last.pre.index]_vars

\* root / with index {/, /p/d}: /p has been clicked open, then clicked shut
ClickTwiceReached ==
    /\ FolderClick
    /\ last.again
    /\ last.stage
    /\ last.pre.index = {FsRoot, Proj, ProjDir}
    /\ last.node = Proj
    /\ state.index = {FsRoot, ProjDir}

----------------------------------------------------------------------------
(* Filter and selection *)

\* C4: the filter command with a non-empty pattern returns a State with that
\* pattern as filter_pattern and an empty selection, whatever was selected;
\* with an empty or cancelled input filter_pattern is None and the
\* selection is empty too.
FilterEmptiesSelection ==
    last.op = "filter"
        => /\ last.stage
           /\ state.selection = {}
           /\ state.filter_pattern = last.text
           /\ (~ last.trace[1].ok) => state.filter_pattern = NoFilter

\* the prompt is cancelled with a path selected and no filter set
FilterEmptiesSelectionReached ==
    /\ last.op = "filter"
    /\ last.pre.selection # {}
    /\ last.pre.filter_pattern = NoFilter
    /\ last.text = NoFilter
    /\ state.selection = {}

\* C5: in every reachable State a filter_pattern that is set comes with an
\* empty selection; a selection toggle under a filter selects nothing.
FilterMeansNoSelection == state.filter_pattern # NoFilter => state.selection = {}

\* a row is selected while the filter "f" is active
SelectUnderFilter ==
    /\ last.op \in {"select", "select_visual"}
    /\ last.pre.filter_pattern = "f"
    /\ last.pre.selection = {}
    /\ state.filter_pattern = "f"
    /\ state.selection # {}

----------------------------------------------------------------------------
(* Delete and trash *)

\* C6: delete and trash take the selection when there is one and the nodes
\* under the cursor or the marks otherwise; the set in the confirmation and
\* in the collaborator's call is unify_ancestors of those, with no path
\* below another; with that set empty nothing is asked and nothing changed.
DeleteTakesUnified ==
    last.op \in {"delete", "trash"} =>
        LET targets == IF last.pre.selection # {} THEN last.pre.selection
                       ELSE last.targets
            unified == unify_ancestors(targets)
        IN IF unified = {}
           THEN last.trace = <<>> /\ ~ last.stage /\ state = last.pre
           ELSE /\ last.trace[1].ev = "confirm"
                /\ \A i \in Places({"confirm"} \cup Calls) :
                      /\ last.trace[i].paths = unified
                      /\ \A p, q \in last.trace[i].paths : IsPrefix(p, q) => p = q

\* /p/d and /p/d/f selected: the one entry /p/d is confirmed and removed
DeleteTakesUnifiedReached ==
    /\ last.op = "delete"
    /\ last.pre.selection = {ProjDir, ProjDirFile}
    /\ Len(last.trace) >= 2
    /\ last.trace[1] = Event("confirm", {ProjDir}, {}, TRUE)
    /\ last.trace[2] = Event("remove", {ProjDir}, {}, TRUE)
    /\ ProjDir \notin disk.dirs

\* C7: after a confirmed delete or trash whose collaborator succeeds, the
\* selection is empty, the parent of every deleted path is in the rebuild
\* hint, and the host is told to close the buffers of every deleted path;
\* it is told so only after the collaborator has succeeded.
DeleteSucceeded ==
    last.op \in {"delete", "trash"} =>
        /\ \A i \in Places(Calls) : last.trace[i].ok =>
              /\ last.stage
              /\ state.selection = {}
              /\ \E j \in Places({"forward"}) :
                    \A p \in last.trace[i].paths : dirname(p) \in last.trace[j].paths
              /\ \E k \in Places({"kill"}) :
                    k > i /\ last.trace[i].paths \subseteq last.trace[k].paths
        /\ \A k \in Places({"kill"}) :
              \E i \in Places(Calls) : i < k /\ last.trace[i].ok

\* /p/f and /p/d/f selected and trashed
DeleteSucceededReached ==
    /\ last.op = "trash"
    /\ last.pre.selection = {ProjFile, ProjDirFile}
    /\ \E i \in Places({"trash"}) : last.trace[i].ok
    /\ \E j \in Places({"forward"}) : last.trace[j].paths = {Proj, ProjDir}
    /\ \E k \in Places({"kill"}) : last.trace[k].paths = {ProjFile, ProjDirFile}
    /\ state.selection = {}
    /\ disk.files = {DeadLink}

\* C8: in delete, trash, cut and copy, an answer to the confirmation that is
\* not yes means no call to a collaborator, no buffer killed and the State
\* left as it was.
DeclinedDoesNothing ==
    (/\ last.op \in {"delete", "trash", "cut", "copy"}
     /\ \E i \in Places({"confirm"}) : ~ last.trace[i].ok)
        => /\ Places(Calls \cup {"kill"}) = {}
           /\ ~ last.stage
           /\ state = last.pre

\* a cut of /p/f to / is declined with /p/f selected
DeclinedDoesNothingReached ==
    /\ last.op = "cut"
    /\ last.pre.selection = {ProjFile}
    /\ last.trace[Len(last.trace)] = Event("confirm", {}, {<<ProjFile, <<"f">>>>}, FALSE)
    /\ state.selection = {ProjFile}
    /\ ProjFile \in disk.files

----------------------------------------------------------------------------
(* Cut and copy *)

\* C9: in delete, trash, cut and copy, every call to a collaborator comes
\* after a yes to a confirmation in the same run, with exactly the set or
\* the mapping the confirmation listed; there is at most one call in a run.
CallsAreConfirmed ==
    last.op \in {"delete", "trash", "cut", "copy"} =>
        /\ Cardinality(Places(Calls)) <= 1
        /\ \A i \in Places(Calls) :
              /\ last.trace[i].ev = (IF last.op = "delete" THEN "remove" ELSE last.op)
              /\ \E j \in Places({"confirm"}) :
                    /\ j < i
                    /\ last.trace[j].ok
                    /\ last.trace[j].paths = last.trace[i].paths
                    /\ last.trace[j].ops = last.trace[i].ops

\* /p/f is copied to /p/d/p after the user renamed the destination /p/d/f
CallsAreConfirmedReached ==
    /\ last.op = "copy"
    /\ \E i \in Places({"ask_rename"}) : last.trace[i].ok
    /\ \E j \in Places({"confirm"}) :
          last.trace[j] = Event("confirm", {}, {<<ProjFile, <<"p", "d", "p">>>>}, TRUE)
    /\ \E i \in Places({"copy"}) :
          last.trace[i] = Event("copy", {}, {<<ProjFile, <<"p", "d", "p">>>>}, TRUE)
    /\ <<"p", "d", "p">> \in disk.files

\* C10: cut and copy with a selection and a node under the cursor map every
\* path s of unify_ancestors(selection) to join(D, basename(s)), D being
\* the node's path when it is a folder and its parent otherwise; with no
\* selection or no node nothing is executed and the State is unchanged.
OperationMapsToCursor ==
    last.op \in {"cut", "copy"} =>
        IF last.pre.selection # {} /\ last.node # NoPath
        THEN LET D == IF last.mode = "folder" THEN last.node ELSE dirname(last.node)
             IN /\ last.trace[1].ev = "pre_op"
                /\ last.trace[1].ops =
                      {<<s, join(D, basename(s))>> : s \in unify_ancestors(last.pre.selection)}
        ELSE /\ Places(Calls \cup {"confirm", "kill"}) = {}
             /\ ~ last.stage
             /\ state = last.pre

\* /p/d/f selected and cut with the cursor on the folder /: it is now /f
OperationMapsToCursorReached ==
    /\ last.op = "cut"
    /\ last.pre.selection = {ProjDirFile}
    /\ last.node = FsRoot
    /\ last.mode = "folder"
    /\ last.trace[1] = Event("pre_op", {}, {<<ProjDirFile, <<"f">>>>}, TRUE)
    /\ \E i \in Places({"cut"}) : last.trace[i].ok
    /\ <<"f">> \in disk.files
    /\ ProjDirFile \notin disk.files

\* C11: in cut and copy, when a computed destination exists, a replacement
\* is asked for each colliding source, one at a time and before any call of
\* the collaborator; one prompt declined ends the run with nothing changed;
\* and the collaborator is never called with a destination that exists.
CollisionsAreAsked ==
    (last.op \in {"cut", "copy"} /\ Places({"pre_op"}) # {}) =>
        LET hit == {o \in last.trace[1].ops : exists(o[2], last.on)}
            asks == Places({"ask_rename"})
            declined == {i \in asks : ~ last.trace[i].ok}
        IN /\ \A i \in asks :
                 /\ \E o \in hit : last.trace[i].ops = {o}
                 /\ \A j \in asks : last.trace[j].ops = last.trace[i].ops => j = i
                 /\ \A c \in Places(Calls \cup {"confirm"}) : i < c
           /\ declined = {} => UNION {last.trace[i].ops : i \in asks} = hit
           /\ declined # {} =>
                 /\ declined = {Len(last.trace)}
                 /\ ~ last.stage
                 /\ state = last.pre
                 /\ disk = last.on
           /\ \A c \in Places(Calls) :
                 \A o \in last.trace[c].ops : ~ exists(o[2], last.on)

\* /p/d/f is cut to /p, where /p/f exists; the user answers /p/d, which
\* exists too, and the run ends there
CollisionsAreAskedReached ==
    /\ last.op = "cut"
    /\ last.pre.selection = {ProjDirFile}
    /\ last.node = Proj
    /\ last.trace = <<Event("pre_op", {}, {<<ProjDirFile, ProjFile>>}, TRUE),
                      Event("ask_rename", {ProjDirFile}, {<<ProjDirFile, ProjFile>>}, TRUE),
                      Event("write_error", {}, {}, TRUE)>>
    /\ state = last.pre
    /\ disk = last.on

----------------------------------------------------------------------------
(* New, rename and collapse *)

\* the collaborators that make and rename single entries
EditCalls == {"new", "rename"}

\* the last run was a rename to a name that exists
RenameTaken ==
    /\ last.op = "rename"
    /\ last.targets # {}
    /\ \A path \in last.targets : exists(path, last.on)

\* the last run was a new-file with a name that exists
NewTaken ==
    /\ last.op = "new"
    /\ last.targets # {}
    /\ \A path \in last.targets : exists(path, last.on)

\* C12: a rename to a path that exists offers the prompt for another
\* destination, as cut and copy do, rather than ending; and the rename
\* collaborator is never called with a destination that exists.
RenameTakenAsksAgain ==
    /\ RenameTaken => Places({"ask_rename"}) # {}
    /\ last.op = "rename" =>
          \A i \in Places({"rename"}) :
              \A o \in last.trace[i].ops : ~ exists(o[2], last.on)

\* root /p, the row /p/d renamed to f: /p/f exists, an error is written and
\* the run ends
RenameTakenEnds ==
    /\ RenameTaken
    /\ last.pre.root = Proj
    /\ last.node = ProjDir
    /\ last.targets = {ProjFile}
    /\ last.trace = <<Event("input", {}, {}, TRUE), Event("write_error", {}, {}, TRUE)>>
    /\ last.stage
    /\ state = last.pre

\* the last run was turned down: no name, a name that exists, or a collapse
\* of the root
Rejected ==
    \/ last.op = "new" /\ last.text = ""
    \/ NewTaken
    \/ last.op = "rename" /\ last.node # NoPath /\ last.targets = {}
    \/ RenameTaken
    \/ last.op = "collapse" /\ last.targets = {last.pre.root}

\* C13: a new-file with no name, a new-file or a rename whose destination
\* exists, a rename with no name and a collapse of the root call no
\* collaborator, kill no buffer and leave the State as it was.
RejectedDoesNothing ==
    Rejected =>
        /\ Places(Calls \cup EditCalls \cup {"kill"}) = {}
        /\ state = last.pre
        /\ disk = last.on

\* with /p/d selected, a new-file named f beside /p/f
RejectedDoesNothingReached ==
    /\ NewTaken
    /\ last.text = "f"
    /\ last.targets = {ProjFile}
    /\ last.pre.selection = {ProjDir}
    /\ last.trace[Len(last.trace)].ev = "write_error"
    /\ state = last.pre

\* a collaborator raised in the last run
Raised == \E i \in Places(Calls \cup EditCalls) : ~ last.trace[i].ok

\* the State is a full refresh of the State the last run was given
RefreshOfPre == \E buf \in BufNames : state = refresh(last.pre, buf, disk)

\* C14: when the collaborator raises in a confirmed new, rename, delete,
\* trash, cut or copy, the error is written and the State returned is a
\* full refresh of the State given: the selection loses only the paths that
\* no longer exist, and no buffer is killed.
RaiseGivesRefresh ==
    Raised =>
        /\ \E i \in Places(Calls \cup EditCalls), j \in Places({"write_error"}) : i < j
        /\ last.stage
        /\ RefreshOfPre
        /\ state.selection = {s \in last.pre.selection : exists(s, disk)}
        /\ Places({"kill"}) = {}

\* the part of C14 that holds whatever the filter: the error is written, the
\* State is a full refresh of the State given, and no buffer is killed
RaiseGivesRefreshOfPre ==
    Raised =>
        /\ \E i \in Places(Calls \cup EditCalls), j \in Places({"write_error"}) : i < j
        /\ last.stage
        /\ RefreshOfPre
        /\ Places({"kill"}) = {}

\* under the filter "f" a row is selected and a file named n asked for; new
\* raises, and the selection is empty
RaiseUnderFilterClears ==
    /\ Raised
    /\ last.op = "new"
    /\ last.text = "n"
    /\ last.pre.filter_pattern = "f"
    /\ last.pre.selection # {}
    /\ \A s \in last.pre.selection : exists(s, disk)
    /\ state.selection = {}

----------------------------------------------------------------------------
(* Resize *)

\* C15: bigger gives the width max(width + 10, 1) and smaller the width
\* max(width - 10, 1), with every other field of the State as it was; the
\* width, 1 or more at the start, is 1 or more ever after.
ResizeClamps ==
    /\ state.width >= 1
    /\ last.op = "bigger" =>
          state = [last.pre EXCEPT !.width =
                      IF last.pre.width + 10 >= 1 THEN last.pre.width + 10 ELSE 1]
    /\ last.op = "smaller" =>
          state = [last.pre EXCEPT !.width =
                      IF last.pre.width - 10 >= 1 THEN last.pre.width - 10 ELSE 1]

\* the width 10 made smaller, with a path selected: the width is 1
ResizeClampsReached ==
    /\ last.op = "smaller"
    /\ last.pre.width = 10
    /\ last.pre.selection # {}
    /\ state.width = 1
    /\ state.selection = last.pre.selection

----------------------------------------------------------------------------
(* Follow and change of root *)

\* C16: on a follow event (buffer entered, sidebar toggled, jump to current)
\* for a file F under the root, current is F and index gains the ancestors
\* of F when follow is on, nothing when it is off; for no F, or an F outside
\* the root, index and current are as they were.
FollowSetsCurrent ==
    last.op \in {"follow", "open", "jump"} =>
        IF last.node # NoPath /\ IsPrefix(last.pre.root, last.node)
        THEN /\ state.current = last.node
             /\ state.index = last.pre.index \cup
                    (IF last.pre.follow THEN ancestors(last.node) ELSE {})
        ELSE /\ state.index = last.pre.index
             /\ state.current = last.pre.current

\* follow switched off, then the buffer /p/d/f entered with root / and
\* index {/}: current is /p/d/f and index still {/}
FollowSetsCurrentReached ==
    /\ last.op = "follow"
    /\ ~ last.pre.follow
    /\ last.pre.root = FsRoot
    /\ last.pre.index = {FsRoot}
    /\ last.node = ProjDirFile
    /\ state.current = ProjDirFile
    /\ state.index = {FsRoot}

\* C17: after a change of root (the host's cwd changed, change-focus on a
\* node, change-focus-up) the root is the new base and index is the old
\* index and the new base; change-focus-up at the filesystem root leaves
\* the State as it was.
ChangeRootAddsBase ==
    /\ (last.op \in {"changedir", "change_focus", "change_focus_up"} /\ last.stage) =>
          \E base \in last.targets :
              /\ last.op = "change_focus_up" => base = dirname(last.pre.root)
              /\ last.op = "change_focus" =>
                    base = (IF last.mode = "folder" THEN last.node ELSE dirname(last.node))
              /\ state.root = base
              /\ base \in state.index
              /\ state.index = last.pre.index \cup {base}
    /\ (last.op = "change_focus_up" /\ last.pre.root = FsRoot) =>
          ~ last.stage /\ state = last.pre
    /\ (last.op = "change_focus_up" /\ last.pre.root # FsRoot) => last.stage
    /\ (last.op = "change_focus" /\ last.node # NoPath) => last.stage
    /\ last.op = "changedir" => last.stage

\* root /p/d with index {/p/d}, change-focus-up: root /p, index {/p, /p/d}
ChangeRootAddsBaseReached ==
    /\ last.op = "change_focus_up"
    /\ last.pre.root = ProjDir
    /\ last.pre.index = {ProjDir}
    /\ state.root = Proj
    /\ state.index = {Proj, ProjDir}

\* C18: in every reachable State current is unset or a path inside the
\* root's subtree.
CurrentInsideRoot == state.current = NoPath \/ IsPrefix(state.root, state.current)

\* /p/f is open and the root changed to /p/d by change-focus
CurrentOutsideRoot ==
    /\ last.op = "change_focus"
    /\ last.pre.current = ProjFile
    /\ state.root = ProjDir
    /\ state.current = ProjFile

----------------------------------------------------------------------------
(* Refresh *)

\* C19: after Refresh the selection is the old selection's paths that still
\* exist (none under a filter), and every path of index is the root, a path
\* of the old index that still exists, or, only with follow on and the
\* host's buffer under the root, an ancestor of that buffer.
RefreshReconciles ==
    last.op = "refresh" /\ last.stage =>
        /\ state.selection =
              (IF last.pre.filter_pattern # NoFilter THEN {}
               ELSE {s \in last.pre.selection : exists(s, last.on)})
        /\ \A i \in state.index :
              \/ i = last.pre.root
              \/ i \in last.pre.index /\ exists(i, last.on)
              \/ /\ last.pre.follow
                 /\ last.node # NoPath
                 /\ IsPrefix(last.pre.root, last.node)
                 /\ IsPrefix(i, last.node) /\ i # last.node

\* root /p/d with index {/p/d} and follow on, the host's buffer /p/f outside
\* the root: Refresh puts /p in index
RefreshExpandsOutside ==
    /\ last.op = "refresh"
    /\ last.stage
    /\ last.pre.follow
    /\ last.pre.root = ProjDir
    /\ last.pre.index = {ProjDir}
    /\ last.node = ProjFile
    /\ state.index = {Proj, ProjDir}

\* the part of C19 that holds: the selection after Refresh, and the paths
\* of the old index that are gone
RefreshDropsMissing ==
    last.op = "refresh" /\ last.stage =>
        /\ state.selection =
              (IF last.pre.filter_pattern # NoFilter THEN {}
               ELSE {s \in last.pre.selection : exists(s, last.on)})
        /\ \A i \in state.index :
              \/ i = last.pre.root
              \/ exists(i, last.on)
              \/ last.node # NoPath /\ IsPrefix(i, last.node)

----------------------------------------------------------------------------
(* Dispatch *)

----------------------------------------------------------------------------
(* Selection toggle *)

\* the State st with paths toggled in its selection and nothing else of
\* root, index, filter_pattern and current touched
Toggled(pre, st, paths) ==
    /\ st.selection = Xor(pre.selection, paths)
    /\ st.index = pre.index
    /\ st.root = pre.root
    /\ st.filter_pattern = pre.filter_pattern
    /\ st.current = pre.current

\* one run of c_select
SelectToggled ==
    /\ last.op = "select" =>
           IF last.node # NoPath
           THEN last.stage /\ Toggled(last.pre, state, {last.node})
           ELSE ~ last.stage /\ state = last.pre
    /\ last.op = "select_visual" =>
           last.stage /\ Toggled(last.pre, state, last.targets)

\* two runs of c_select in a row on the same node, or on the same range
SelectedTwice ==
    /\ last.op \in {"select", "select_visual"}
    /\ last'.op = last.op
    /\ last'.node = last.node
    /\ last'.targets = last.targets
    /\ last'.pre = state

\* C21: select on the cursor's node toggles its path in the selection (no
\* node: the State is unchanged), visual select toggles the paths of the
\* range; index, root, filter_pattern and current are unchanged, and the
\* same toggle twice in a row restores the selection.
SelectToggles ==
    /\ []SelectToggled
    /\ [][SelectedTwice => state'.selection = last.pre.selection]_vars

\* /p/f was selected alone, toggled out, and is toggled in again
SelectTogglesReached ==
    /\ last.op = "select"
    /\ last.again
    /\ last.node = ProjFile
    /\ last.pre.selection = {}
    /\ state.selection = {ProjFile}

----------------------------------------------------------------------------
(* Refresh and the followed file *)

\* C22: after Refresh current is the host's current buffer when that lies
\* inside the root, and unset when it does not.
RefreshRederivesCurrent ==
    last.op = "refresh" /\ last.stage =>
        state.current = (IF is_parent(last.pre.root, last.node) THEN last.node ELSE NoPath)

\* /p/f was current, the host's buffer has no name: after Refresh /p/f is
\* current still
CurrentSurvivesRefresh ==
    /\ last.op = "refresh"
    /\ last.stage
    /\ last.node = NoPath
    /\ last.pre.current = ProjFile
    /\ state.current = ProjFile

\* the part of C22 that holds: with the host's buffer inside the root,
\* current is that buffer; otherwise current is what it was
RefreshKeepsCurrent ==
    last.op = "refresh" /\ last.stage =>
        state.current = (IF is_parent(last.pre.root, last.node) THEN last.node
                         ELSE last.pre.current)

----------------------------------------------------------------------------
(* The host fails during a refresh *)

\* the run's trace has an event ev
Traced(ev) == \E k \in DOMAIN last.trace : last.trace[k].ev = ev

\* a call to the host failed in the run
HostFailed == \E k \in DOMAIN last.trace : last.trace[k].ev = "host" /\ ~ last.trace[k].ok

\* C23: a host call that fails in a background refresh is swallowed: no
\* Stage, the State as it was, nothing written to the user, nothing raised;
\* the same failure in the user's refresh is raised.
BackgroundFailureSwallowed ==
    /\ last.op = "schedule_update" /\ HostFailed =>
           /\ ~ last.stage
           /\ state = last.pre
           /\ ~ Traced("write_error")
           /\ ~ Traced("write")
           /\ ~ Traced("raise")
    /\ last.op = "refresh" /\ HostFailed => Traced("raise")

\* /p/f is selected and the host fails in a background refresh
BackgroundFailureReached ==
    /\ last.op = "schedule_update"
    /\ HostFailed
    /\ last.pre.selection = {ProjFile}
    /\ state.selection = {ProjFile}

----------------------------------------------------------------------------
(* The index after entries are removed or moved *)

\* the paths the run's collaborator calls removed or moved away
Gone ==
    UNION {IF ~ last.trace[k].ok THEN {}
           ELSE IF last.trace[k].ev \in {"remove", "trash"} THEN last.trace[k].paths
           ELSE IF last.trace[k].ev \in {"cut", "rename"}
                THEN {o[1] : o \in last.trace[k].ops}
           ELSE {} : k \in DOMAIN last.trace}

\* C24: after a successful delete, trash, cut or rename no path of index is
\* a path the operation removed or moved away, or a descendant of one.
IndexForgetsGone ==
    last.op \in {"delete", "trash", "cut", "rename"} /\ last.stage =>
        \A i \in state.index : \A g \in Gone : ~ IsPrefix(g, i)

\* the expanded folder /p/d is deleted, and index has /p/d still
IndexKeepsDeleted ==
    /\ last.op = "delete"
    /\ last.stage
    /\ Gone = {ProjDir}
    /\ ~ OnDisk(ProjDir, disk)
    /\ ProjDir \in state.index

----------------------------------------------------------------------------
(* The mapping of cut and copy *)

\* the mappings the run showed for confirmation or gave the collaborator
Mappings ==
    {last.trace[k].ops : k \in {j \in DOMAIN last.trace :
                                    last.trace[j].ev \in {"confirm", "cut", "copy"}}}

\* C25: the mapping cut and copy show for confirmation and give the
\* collaborator is injective, and maps no source into its own subtree.
MappingInjective ==
    last.op \in {"cut", "copy"} =>
        \A ops \in Mappings :
            /\ \A o, q \in ops : o[2] = q[2] => o = q
            /\ \A o \in ops : ~ IsPrefix(o[1], o[2])

\* /p/f and /p/d/f are selected and the cursor is on the root's row: both
\* are mapped to /f, and the user is asked to confirm that
MappingCollides ==
    /\ last.op \in {"cut", "copy"}
    /\ last.pre.root = FsRoot
    /\ last.node = FsRoot
    /\ {<<ProjFile, <<"f">>>>, <<ProjDirFile, <<"f">>>>} \in Mappings

----------------------------------------------------------------------------
(* Collapse *)

\* the folder a collapse on the node acts on
CollapseTarget ==
    IF Mode(last.node, last.on) = "folder" THEN last.node ELSE dirname(last.node)

\* C26: collapse acts on the cursor's node when it is a folder and on its
\* parent otherwise; when that target is not the root, index loses exactly
\* the target and the paths under it, and selection and current are
\* unchanged.
CollapseRemovesSubtree ==
    last.op = "collapse" /\ last.node # NoPath =>
        /\ last.targets = {CollapseTarget}
        /\ CollapseTarget # last.pre.root =>
               /\ last.stage
               /\ state.index =
                      last.pre.index \ {i \in last.pre.index : IsPrefix(CollapseTarget, i)}
               /\ state.selection = last.pre.selection
               /\ state.current = last.pre.current

\* root / with /p and /p/d expanded and /p/f selected: collapse on the file
\* /p/f shuts /p and /p/d
CollapseRemovesSubtreeReached ==
    /\ last.op = "collapse"
    /\ last.node = ProjFile
    /\ last.pre.index = {FsRoot, Proj, ProjDir}
    /\ last.pre.selection = {ProjFile}
    /\ state.index = {FsRoot}
    /\ state.selection = {ProjFile}

----------------------------------------------------------------------------
(* The root's own row *)

\* C27: a handler given a State with the root in index leaves the root of
\* the resulting State in its index.
RootStaysExpanded ==
    last.op # "init" /\ last.pre.root \in last.pre.index => state.root \in state.index

\* a click on the root's own row takes the root out of index
RootClickedShut ==
    /\ FolderClick
    /\ last.stage
    /\ last.node = last.pre.root
    /\ last.pre.root \in last.pre.index
    /\ state.root = last.pre.root
    /\ state.root \notin state.index

\* the part of C27 that holds: every handler but a click keeps the root in
\* index
RootStaysExpandedUnclicked ==
    /\ last.op \notin {"init", "click"}
    /\ last.pre.root \in last.pre.index
    => state.root \in state.index

====
